---- MODULE Spec2Model ----
(***************************************************************************)
(* Coupon Management service (server.js): the in-memory coupon collection, *)
(* the per-user usage ledger and the three request handlers createCoupon   *)
(* (POST /api/coupons), bestCoupon (POST /api/best-coupon) and applyCoupon *)
(* (POST /api/apply-coupon).                                               *)
(*                                                                         *)
(* Representation.                                                         *)
(*  - A JavaScript string on which the code computes (coupon codes,        *)
(*    discount types, tiers, countries, categories) is a sequence of       *)
(*    one-character strings, so that trim, toUpperCase, toLowerCase and    *)
(*    the < of the comparator are computed character by character.         *)
(*  - An optional value (null / undefined / absent property) is the empty  *)
(*    set, a present value v is {v}.                                       *)
(*  - Money is an integer number of thousandths of the currency unit.      *)
(*  - A Date is an integer number of days; the server starts on day Boot.  *)
(*  - Every handler of server.js is synchronous, so one handler run is one *)
(*    atomic step; inflight is the bag of requests received and not yet    *)
(*    handled, which the handlers take in any order.                       *)
(***************************************************************************)
EXTENDS Integers, Sequences, FiniteSets, Bags, TLC

VARIABLES
  coupons,    \* the coupons array
  userUsage,  \* the usage ledger
  now,        \* the clock nowDate() reads
  inflight,   \* requests received and not yet handled
  response,   \* the response the last handler wrote, until the client has read it
  succeeded   \* history: the bag of <<userId, code>> of the successful applies

vars == <<coupons, userUsage, now, inflight, response, succeeded>>

(***************************************************************************)
(* Optional values and money                                               *)
(***************************************************************************)
Null == {}

Some(v) == {v}

Get(o) == CHOOSE v \in o : TRUE

\* `x || 0` followed by Number(): an absent (or zero) number reads as 0
NumberOr0(o) == IF o = Null THEN 0 ELSE Get(o)

\* an amount of `units` currency units and `mills` thousandths
Money(units, mills) == units * 1000 + mills

\* Math.round(x * 100) / 100 on an amount in thousandths (half rounds up)
Round2(x) == ((x + 5) \div 10) * 10

Min(a, b) == IF a <= b THEN a ELSE b

Max(a, b) == IF a >= b THEN a ELSE b

(***************************************************************************)
(* Strings                                                                 *)
(***************************************************************************)
Lowers == <<"a","b","c","d","e","f","g","h","i","j","k","l","m",
            "n","o","p","q","r","s","t","u","v","w","x","y","z">>

Uppers == <<"A","B","C","D","E","F","G","H","I","J","K","L","M",
            "N","O","P","Q","R","S","T","U","V","W","X","Y","Z">>

Digits == <<"0","1","2","3","4","5","6","7","8","9">>

IndexOf(seq, ch) == CHOOSE i \in 1..Len(seq) : seq[i] = ch

Has(seq, x) == \E i \in 1..Len(seq) : seq[i] = x

Range(seq) == {seq[i] : i \in 1..Len(seq)}

\* the characters the model's strings are made of
Chars == Range(Lowers) \cup Range(Uppers) \cup Range(Digits) \cup {" ", "-"}

\* UTF-16 code unit of each character
CodeUnit ==
  [ch \in Chars |->
     IF Has(Digits, ch) THEN 47 + IndexOf(Digits, ch)
     ELSE IF Has(Uppers, ch) THEN 64 + IndexOf(Uppers, ch)
     ELSE IF Has(Lowers, ch) THEN 96 + IndexOf(Lowers, ch)
     ELSE IF ch = "-" THEN 45
     ELSE 32]

UpperOf == [ch \in Chars |-> IF Has(Lowers, ch) THEN Uppers[IndexOf(Lowers, ch)] ELSE ch]

LowerOf == [ch \in Chars |-> IF Has(Uppers, ch) THEN Lowers[IndexOf(Uppers, ch)] ELSE ch]

toUpperCase(s) == [i \in 1..Len(s) |-> UpperOf[s[i]]]

toLowerCase(s) == [i \in 1..Len(s) |-> LowerOf[s[i]]]

RECURSIVE trimStart(_)
trimStart(s) == IF s # <<>> /\ Head(s) = " " THEN trimStart(Tail(s)) ELSE s

RECURSIVE trimEnd(_)
trimEnd(s) ==
  IF s # <<>> /\ s[Len(s)] = " " THEN trimEnd(SubSeq(s, 1, Len(s) - 1)) ELSE s

trim(s) == trimEnd(trimStart(s))

\* a < b on strings: code-unit lexicographic order, a proper prefix is smaller
RECURSIVE StrLess(_, _)
StrLess(a, b) ==
  IF b = <<>> THEN FALSE
  ELSE IF a = <<>> THEN TRUE
  ELSE IF CodeUnit[Head(a)] # CodeUnit[Head(b)] THEN CodeUnit[Head(a)] < CodeUnit[Head(b)]
  ELSE StrLess(Tail(a), Tail(b))

normalizeCode(code) == toUpperCase(trim(code))

\* list.map(x => String(x).toUpperCase())
upperAll(list) == [i \in 1..Len(list) |-> toUpperCase(list[i])]

(***************************************************************************)
(* Dates                                                                   *)
(***************************************************************************)
\* the day the process starts (seedCoupons runs at Date.now())
Boot == 1

\* the clock readings the model visits: start-up, and the day after
\* FESTIVE50P has expired
Times == {Boot, Boot + 11}

\* new Date(s) for the date strings the requests use; a string outside the
\* table is not a date (isNaN)
IsoDay == ("2025-01-01" :> Boot - 1) @@ ("2025-01-13" :> Boot + 11) @@ ("2025-03-03" :> Boot + 60)

parseDate(s) ==
  IF s = "" THEN Null
  ELSE IF s \notin DOMAIN IsoDay THEN Null
  ELSE Some(IsoDay[s])

\* new Date(8640000000000000), in days
MAX_DATE == 100000000

(***************************************************************************)
(* Literals of the seed data and of the requests                           *)
(***************************************************************************)
FLAT == <<"F","L","A","T">>

PERCENT == <<"P","E","R","C","E","N","T">>

TierNEW == <<"N","E","W">>

CountryIN == <<"I","N">>

CountryUS == <<"U","S">>

electronics == <<"e","l","e","c","t","r","o","n","i","c","s">>

fashion == <<"f","a","s","h","i","o","n">>

WELCOME100 == <<"W","E","L","C","O","M","E","1","0","0">>

FESTIVE50P == <<"F","E","S","T","I","V","E","5","0","P">>

ELECTRO10 == <<"E","L","E","C","T","R","O","1","0">>

EXCLUDE_FASHION == <<"E","X","C","L","U","D","E","-","F","A","S","H","I","O","N">>

\* `eligibility: {}`: every predicate absent
NoEligibility ==
  [allowedUserTiers |-> <<>>, minLifetimeSpend |-> Null, minOrdersPlaced |-> Null,
   firstOrderOnly |-> FALSE, allowedCountries |-> <<>>, minCartValue |-> Null,
   applicableCategories |-> <<>>, excludedCategories |-> <<>>, minItemsCount |-> Null]

\* the collection after seedCoupons()
seedCoupons ==
  << [code |-> WELCOME100, discountType |-> FLAT, discountValue |-> Money(100, 0),
      maxDiscountAmount |-> Null, startDate |-> Some(Boot - 1), endDate |-> Some(Boot + 30),
      usageLimitPerUser |-> Some(1),
      eligibility |-> [NoEligibility EXCEPT !.allowedUserTiers = <<TierNEW>>,
                                            !.minLifetimeSpend = Some(0),
                                            !.minOrdersPlaced = Some(0),
                                            !.firstOrderOnly = TRUE,
                                            !.allowedCountries = <<CountryIN>>]],
     [code |-> FESTIVE50P, discountType |-> PERCENT, discountValue |-> 50,
      maxDiscountAmount |-> Some(Money(500, 0)), startDate |-> Some(Boot - 1),
      endDate |-> Some(Boot + 10), usageLimitPerUser |-> Some(2),
      eligibility |-> [NoEligibility EXCEPT !.minCartValue = Some(Money(2000, 0)),
                                            !.allowedCountries = <<CountryIN, CountryUS>>]],
     [code |-> ELECTRO10, discountType |-> PERCENT, discountValue |-> 10,
      maxDiscountAmount |-> Null, startDate |-> Some(Boot - 1), endDate |-> Some(Boot + 60),
      usageLimitPerUser |-> Null,
      eligibility |-> [NoEligibility EXCEPT !.applicableCategories = <<electronics>>,
                                            !.minItemsCount = Some(1)]],
     [code |-> EXCLUDE_FASHION, discountType |-> FLAT, discountValue |-> Money(150, 0),
      maxDiscountAmount |-> Null, startDate |-> Some(Boot - 1), endDate |-> Some(Boot + 60),
      usageLimitPerUser |-> Null,
      eligibility |-> [NoEligibility EXCEPT !.excludedCategories = <<fashion>>,
                                            !.minCartValue = Some(Money(500, 0))]] >>

(***************************************************************************)
(* Cart calculator                                                         *)
(*   cart.kind = "absent"   : the request has no cart (undefined / null)   *)
(*               "noitems"  : cart.items is undefined or another falsy     *)
(*               "nonarray" : cart.items is a truthy value, not an array   *)
(*               "array"    : cart.items is an array of line items         *)
(***************************************************************************)
isArrayItems(cart) == cart.kind = "array"

RECURSIVE SumSeq(_)
SumSeq(s) == IF s = <<>> THEN 0 ELSE Head(s) + SumSeq(Tail(s))

LinePrice(it) == it.unitPrice * it.quantity

LineQuantity(it) == it.quantity

computeCartValue(cart) ==
  IF cart.kind = "absent" \/ ~isArrayItems(cart) THEN 0
  ELSE SumSeq([i \in 1..Len(cart.items) |-> LinePrice(cart.items[i])])

computeItemsCount(cart) ==
  IF cart.kind = "absent" \/ ~isArrayItems(cart) THEN 0
  ELSE SumSeq([i \in 1..Len(cart.items) |-> LineQuantity(cart.items[i])])

\* `(cart.items || []).map(...)` raises a TypeError when cart is undefined
\* and when cart.items is a truthy value without a map method
categoriesThrows(cart) == cart.kind \in {"absent", "nonarray"}

categoriesInCart(cart) ==
  IF cart.kind = "array" THEN {toLowerCase(cart.items[i].category) : i \in 1..Len(cart.items)}
  ELSE {}

(***************************************************************************)
(* Usage ledger: userUsage[userId][couponCode], entries created lazily     *)
(***************************************************************************)
EmptyMap == [k \in {} |-> 0]

\* the count read under a key the apply handler never writes
usedCountOtherKey(usage, userId, code) ==
  IF userId \in DOMAIN usage /\ toLowerCase(code) \in DOMAIN usage[userId]
  THEN usage[userId][toLowerCase(code)]
  ELSE 0

usedCount(usage, userId, code) ==
  IF userId \in DOMAIN usage /\ code \in DOMAIN usage[userId]
  THEN usage[userId][code]
  ELSE 0

Put(f, k, v) == [x \in (DOMAIN f) \cup {k} |-> IF x = k THEN v ELSE f[x]]

\* the user's entry replaced by a fresh object instead of `|| {}`
incrementUsageFresh(usage, userId, code) ==
  Put(usage, userId, Put(EmptyMap, code, usedCount(usage, userId, code) + 1))

\* lines 378-379 of the apply handler
incrementUsage(usage, userId, code) ==
  LET inner == IF userId \in DOMAIN usage THEN usage[userId] ELSE EmptyMap
  IN Put(usage, userId, Put(inner, code, usedCount(usage, userId, code) + 1))

\* `user && user.userId`
hasUserId(user) == user.present /\ user.userId # Null

(***************************************************************************)
(* Eligibility check: {ok, reason}; threw = TRUE when the call raises      *)
(***************************************************************************)
Fail(reason) == [ok |-> FALSE, reason |-> reason, threw |-> FALSE]

Threw == [ok |-> FALSE, reason |-> "TypeError", threw |-> TRUE]

Ok == [ok |-> TRUE, reason |-> "", threw |-> FALSE]

\* the cap compared with > instead of >=
usageLimitReachedStrict(coupon, user, usage) ==
  /\ coupon.usageLimitPerUser # Null
  /\ hasUserId(user)
  /\ usedCount(usage, Get(user.userId), coupon.code) > Get(coupon.usageLimitPerUser)

usageLimitReached(coupon, user, usage) ==
  /\ coupon.usageLimitPerUser # Null
  /\ hasUserId(user)
  /\ usedCount(usage, Get(user.userId), coupon.code) >= Get(coupon.usageLimitPerUser)

\* the minimum tested only when a user was sent
minimumNotMetUserOnly(user, attribute, minimum) ==
  user.present /\ NumberOr0(attribute) < minimum

\* !user || Number(user.<attribute> || 0) < Number(e.<minimum>)
minimumNotMet(user, attribute, minimum) ==
  \/ ~user.present
  \/ NumberOr0(attribute) < minimum

checkEligibility(coupon, user, cart, usage, t) ==
  LET e == coupon.eligibility
      accepted == [i \in 1..Len(e.applicableCategories) |-> toLowerCase(e.applicableCategories[i])]
      excluded == [i \in 1..Len(e.excludedCategories) |-> toLowerCase(e.excludedCategories[i])]
      cats == categoriesInCart(cart)
  IN
  IF coupon.startDate # Null /\ t < Get(coupon.startDate) THEN Fail("not started")
  ELSE IF coupon.endDate # Null /\ t > Get(coupon.endDate) THEN Fail("expired")
  ELSE IF usageLimitReached(coupon, user, usage) THEN Fail("usage limit reached")
  ELSE IF /\ Len(e.allowedUserTiers) > 0
          /\ \/ ~user.present
             \/ user.userTier = Null
             \/ ~Has(upperAll(e.allowedUserTiers), toUpperCase(Get(user.userTier)))
       THEN Fail("user tier not allowed")
  ELSE IF /\ e.minLifetimeSpend # Null
          /\ minimumNotMet(user, user.lifetimeSpend, Get(e.minLifetimeSpend))
       THEN Fail("min lifetime spend not met")
  ELSE IF /\ e.minOrdersPlaced # Null
          /\ minimumNotMet(user, user.ordersPlaced, Get(e.minOrdersPlaced))
       THEN Fail("min orders placed not met")
  ELSE IF /\ e.firstOrderOnly
          /\ \/ ~user.present
             \/ NumberOr0(user.ordersPlaced) # 0
       THEN Fail("not first order")
  ELSE IF /\ Len(e.allowedCountries) > 0
          /\ \/ ~user.present
             \/ user.country = Null
             \/ ~Has(upperAll(e.allowedCountries), toUpperCase(Get(user.country)))
       THEN Fail("country not allowed")
  ELSE IF categoriesThrows(cart) THEN Threw
  ELSE IF e.minCartValue # Null /\ computeCartValue(cart) < Get(e.minCartValue)
       THEN Fail("min cart value not met")
  ELSE IF Len(e.applicableCategories) > 0 /\ ~(\E i \in 1..Len(accepted) : accepted[i] \in cats)
       THEN Fail("no applicable categories in cart")
  ELSE IF Len(e.excludedCategories) > 0 /\ (\E i \in 1..Len(excluded) : excluded[i] \in cats)
       THEN Fail("excluded category present")
  ELSE IF e.minItemsCount # Null /\ computeItemsCount(cart) < Get(e.minItemsCount)
       THEN Fail("min items count not met")
  ELSE Ok

(***************************************************************************)
(* Discount calculator (unrounded amount, in thousandths)                  *)
(***************************************************************************)
computeDiscountAmount(coupon, cart) ==
  LET cartValue == computeCartValue(cart) IN
  IF coupon.discountType = FLAT THEN Min(coupon.discountValue, cartValue)
  ELSE IF coupon.discountType = PERCENT THEN
    \* (discountValue / 100) * cartValue; exact, as every cart value of the
    \* model is a multiple of a tenth and every percentage an integer
    LET raw == (coupon.discountValue * cartValue) \div 100 IN
    IF coupon.maxDiscountAmount # Null THEN Min(raw, Get(coupon.maxDiscountAmount)) ELSE raw
  ELSE 0

(***************************************************************************)
(* createCoupon: POST /api/coupons                                         *)
(*   body.code is a string (<<>> when missing or empty), discountType,     *)
(*   discountValue, maxDiscountAmount and usageLimitPerUser are optional,  *)
(*   startDate and endDate are date strings ("" when missing).             *)
(***************************************************************************)
\* the duplicate scan stopping one coupon short
codeExistsButLast(cs, code) == \E i \in 1..(Len(cs) - 1) : normalizeCode(cs[i].code) = code

codeExists(cs, code) == \E i \in 1..Len(cs) : normalizeCode(cs[i].code) = code

createCouponResult(cs, body) ==
  LET code == normalizeCode(body.code)
      coupon == [code |-> code,
                 discountType |-> toUpperCase(Get(body.discountType)),
                 discountValue |-> Get(body.discountValue),
                 maxDiscountAmount |-> body.maxDiscountAmount,
                 startDate |-> parseDate(body.startDate),
                 endDate |-> parseDate(body.endDate),
                 usageLimitPerUser |-> body.usageLimitPerUser,
                 eligibility |-> body.eligibility]
  IN
  IF \/ body.code = <<>>
     \/ body.discountType = Null
     \/ body.discountValue = Null
     \/ body.startDate = ""
     \/ body.endDate = ""
  THEN [status |-> 400, message |-> "Missing required fields", coupons |-> cs, code |-> <<>>]
  ELSE IF codeExists(cs, code)
  THEN [status |-> 409, message |-> "Coupon code already exists", coupons |-> cs, code |-> <<>>]
  ELSE IF coupon.startDate = Null \/ coupon.endDate = Null
  THEN [status |-> 400, message |-> "Invalid startDate or endDate", coupons |-> cs, code |-> <<>>]
  ELSE [status |-> 200, message |-> "", coupons |-> Append(cs, coupon), code |-> code]

(***************************************************************************)
(* bestCoupon: POST /api/best-coupon                                       *)
(***************************************************************************)
\* the loop with `discountAmount < 0` as the test for skipping a coupon
RECURSIVE eligibleListKeepZero(_, _, _, _, _)
eligibleListKeepZero(cs, user, cart, usage, t) ==
  IF cs = <<>> THEN <<>>
  ELSE LET c == Head(cs)
           rest == eligibleListKeepZero(Tail(cs), user, cart, usage, t)
           discountAmount == computeDiscountAmount(c, cart)
           finalAmount == Max(0, computeCartValue(cart) - discountAmount)
       IN IF ~checkEligibility(c, user, cart, usage, t).ok THEN rest
          ELSE IF discountAmount < 0 THEN rest
          ELSE <<[coupon |-> c,
                  discountAmount |-> Round2(discountAmount),
                  finalAmount |-> Round2(finalAmount)]>> \o rest

\* the loop of lines 310-324: the entries pushed, in collection order
RECURSIVE eligibleList(_, _, _, _, _)
eligibleList(cs, user, cart, usage, t) ==
  IF cs = <<>> THEN <<>>
  ELSE LET c == Head(cs)
           rest == eligibleList(Tail(cs), user, cart, usage, t)
           discountAmount == computeDiscountAmount(c, cart)
           finalAmount == Max(0, computeCartValue(cart) - discountAmount)
       IN IF ~checkEligibility(c, user, cart, usage, t).ok THEN rest
          ELSE IF discountAmount <= 0 THEN rest
          ELSE <<[coupon |-> c,
                  discountAmount |-> Round2(discountAmount),
                  finalAmount |-> Round2(finalAmount)]>> \o rest

anyCheckThrows(cs, user, cart, usage, t) ==
  \E i \in 1..Len(cs) : checkEligibility(cs[i], user, cart, usage, t).threw

endTime(coupon) == IF coupon.endDate # Null THEN Get(coupon.endDate) ELSE MAX_DATE

\* the comparator with the amounts subtracted the wrong way round
compareEntriesAscending(a, b) ==
  LET ac == normalizeCode(a.coupon.code)
      bc == normalizeCode(b.coupon.code)
  IN IF b.discountAmount # a.discountAmount THEN a.discountAmount - b.discountAmount
     ELSE IF endTime(a.coupon) # endTime(b.coupon) THEN endTime(a.coupon) - endTime(b.coupon)
     ELSE IF StrLess(ac, bc) THEN -1
     ELSE IF StrLess(bc, ac) THEN 1
     ELSE 0

\* the comparator without its tie-breaks
compareEntriesAmountOnly(a, b) ==
  IF b.discountAmount # a.discountAmount THEN b.discountAmount - a.discountAmount ELSE 0

\* the comparator of eligibleList.sort: negative when a sorts before b
compareEntries(a, b) ==
  LET ac == normalizeCode(a.coupon.code)
      bc == normalizeCode(b.coupon.code)
  IN IF b.discountAmount # a.discountAmount THEN b.discountAmount - a.discountAmount
     ELSE IF endTime(a.coupon) # endTime(b.coupon) THEN endTime(a.coupon) - endTime(b.coupon)
     ELSE IF StrLess(ac, bc) THEN -1
     ELSE IF StrLess(bc, ac) THEN 1
     ELSE 0

\* Array.prototype.sort with that comparator (stable)
RECURSIVE insertSorted(_, _)
insertSorted(x, sorted) ==
  IF sorted = <<>> THEN <<x>>
  ELSE IF compareEntries(x, Head(sorted)) <= 0 THEN <<x>> \o sorted
  ELSE <<Head(sorted)>> \o insertSorted(x, Tail(sorted))

RECURSIVE sortEntries(_)
sortEntries(list) ==
  IF list = <<>> THEN <<>> ELSE insertSorted(Head(list), sortEntries(Tail(list)))

bestCouponResult(cs, usage, t, user, cart) ==
  LET list == eligibleList(cs, user, cart, usage, t)
      best == Head(sortEntries(list))
  IN
  IF cart.kind = "absent" \/ ~isArrayItems(cart)
  THEN [status |-> 400, message |-> "Invalid cart", best |-> FALSE, code |-> <<>>,
        discountAmount |-> 0, finalAmount |-> 0]
  ELSE IF anyCheckThrows(cs, user, cart, usage, t)
  THEN [status |-> 500, message |-> "Server error", best |-> FALSE, code |-> <<>>,
        discountAmount |-> 0, finalAmount |-> 0]
  ELSE IF Len(list) = 0
  THEN [status |-> 200, message |-> "", best |-> FALSE, code |-> <<>>,
        discountAmount |-> 0, finalAmount |-> 0]
  ELSE [status |-> 200, message |-> "", best |-> TRUE, code |-> best.coupon.code,
        discountAmount |-> best.discountAmount, finalAmount |-> best.finalAmount]

(***************************************************************************)
(* applyCoupon: POST /api/apply-coupon                                     *)
(***************************************************************************)
\* coupons.find(c => normalizeCode(c.code) === normalizeCode(code))
findCoupon(cs, code) ==
  LET wanted == normalizeCode(code)
      hits == {i \in 1..Len(cs) : normalizeCode(cs[i].code) = wanted}
  IN IF hits = {} THEN Null
     ELSE Some(cs[CHOOSE i \in hits : \A j \in hits : i <= j])

applyCouponResult(cs, usage, t, user, cart, code) ==
  LET found == findCoupon(cs, code)
      coupon == Get(found)
      check == checkEligibility(coupon, user, cart, usage, t)
      discountAmount == Round2(computeDiscountAmount(coupon, cart))
      finalAmount == Round2(computeCartValue(cart) - discountAmount)
  IN
  IF code = <<>>
  THEN [status |-> 400, message |-> "code required", code |-> <<>>,
        discountAmount |-> 0, finalAmount |-> 0, usage |-> usage]
  ELSE IF found = Null
  THEN [status |-> 404, message |-> "Coupon not found", code |-> <<>>,
        discountAmount |-> 0, finalAmount |-> 0, usage |-> usage]
  ELSE IF check.threw
  THEN [status |-> 500, message |-> "Server error", code |-> coupon.code,
        discountAmount |-> 0, finalAmount |-> 0, usage |-> usage]
  ELSE IF ~check.ok
  THEN [status |-> 400, message |-> check.reason, code |-> coupon.code,
        discountAmount |-> 0, finalAmount |-> 0, usage |-> usage]
  ELSE [status |-> 200, message |-> "", code |-> coupon.code,
        discountAmount |-> discountAmount, finalAmount |-> finalAmount,
        usage |-> IF hasUserId(user)
                  THEN incrementUsage(usage, Get(user.userId), coupon.code)
                  ELSE usage]

(***************************************************************************)
(* Request inputs                                                          *)
(***************************************************************************)
NoUser ==
  [present |-> FALSE, userId |-> Null, userTier |-> Null, country |-> Null,
   lifetimeSpend |-> Null, ordersPlaced |-> Null]

\* the seeded demo user
demoUser ==
  [present |-> TRUE, userId |-> Some("hire-me"), userTier |-> Some(TierNEW),
   country |-> Some(CountryIN), lifetimeSpend |-> Some(0), ordersPlaced |-> Some(0)]

\* a guest: the demo user's attributes without a userId
guestUser == [demoUser EXCEPT !.userId = Null]

\* the user of the README's apply example: { "userId": "u1" }
idOnlyUser == [NoUser EXCEPT !.present = TRUE, !.userId = Some("u1")]

Users == {NoUser, demoUser, guestUser, idOnlyUser}

UserIds == {"hire-me", "u1"}

books == <<"B","o","o","k","s">>

Line(category, unitPrice, quantity) ==
  [category |-> category, unitPrice |-> unitPrice, quantity |-> quantity]

CartOf(items) == [kind |-> "array", items |-> items]

absentCart == [kind |-> "absent", items |-> <<>>]

noItemsCart == [kind |-> "noitems", items |-> <<>>]

nonArrayCart == [kind |-> "nonarray", items |-> <<>>]

emptyCart == CartOf(<<>>)

\* the README's cart: one electronics item of 1500
electronicsCart == CartOf(<<Line(electronics, Money(1500, 0), 1)>>)

\* electronics 300 x 2 and fashion 400 x 1: cart value 1000
mixedCart == CartOf(<<Line(electronics, Money(300, 0), 2), Line(fashion, Money(400, 0), 1)>>)

fashionCart == CartOf(<<Line(fashion, Money(2000, 0), 1)>>)

\* one item of 0.10
smallCart == CartOf(<<Line(books, Money(0, 100), 1)>>)

P11 == <<"P","1","1">>

P14 == <<"P","1","4">>

BIG == <<"B","I","G">>

Body(code, discountType, discountValue, startDate, endDate, usageLimitPerUser) ==
  [code |-> code, discountType |-> discountType, discountValue |-> discountValue,
   maxDiscountAmount |-> Null, startDate |-> startDate, endDate |-> endDate,
   usageLimitPerUser |-> usageLimitPerUser, eligibility |-> NoEligibility]

\* an eligibility bundle that sets both minimums to 0 and nothing else
spendAndOrdersFrom0 ==
  [NoEligibility EXCEPT !.minLifetimeSpend = Some(0), !.minOrdersPlaced = Some(0)]

CreateBodies ==
  { \* accepted: 11 % and 14 %, and 150 % from day Boot + 11 for users with a
    \* lifetime spend and a number of orders of 0 or more
    Body(<<" ","p","1","1">>, Some(<<"p","e","r","c","e","n","t">>), Some(11),
         "2025-01-01", "2025-03-03", Some(0)),
    Body(P14, Some(PERCENT), Some(14), "2025-01-01", "2025-03-03", Null),
    [Body(BIG, Some(PERCENT), Some(150), "2025-01-13", "2025-03-03", Some(1))
       EXCEPT !.eligibility = spendAndOrdersFrom0],
    \* rejected: a seed code in another case, a missing field, a bad date
    Body(<<"w","e","l","c","o","m","e","1","0","0"," ">>, Some(FLAT), Some(Money(5, 0)),
         "2025-01-01", "2025-03-03", Null),
    Body(<<"X">>, Null, Some(Money(5, 0)), "2025-01-01", "2025-03-03", Null),
    Body(<<"Y">>, Some(FLAT), Some(Money(5, 0)), "2025-01-01", "next week", Null) }

\* codes of apply requests: a seed code in lower case with a leading blank,
\* two seed codes, a created code, an unknown code
ApplyCodes ==
  { <<" ","w","e","l","c","o","m","e","1","0","0">>, FESTIVE50P, ELECTRO10, BIG,
    <<"N","O","P","E">> }

ValidCarts == {emptyCart, electronicsCart, mixedCart, fashionCart, smallCart}

InvalidCarts == {absentCart, noItemsCart, nonArrayCart}

CreateRequests == {[op |-> "create", body |-> b] : b \in CreateBodies}

\* every user with every well-formed cart; the malformed carts with the demo user
BestRequests ==
  {[op |-> "best", user |-> u, cart |-> c] : u \in Users, c \in ValidCarts}
  \cup {[op |-> "best", user |-> demoUser, cart |-> c] : c \in InvalidCarts}

\* every user and code with three well-formed carts; the malformed carts with
\* two users and two codes; one request without a code
ApplyRequests ==
  {[op |-> "apply", user |-> u, cart |-> c, code |-> k] :
     u \in Users, c \in {emptyCart, electronicsCart, fashionCart}, k \in ApplyCodes}
  \cup {[op |-> "apply", user |-> u, cart |-> c, code |-> k] :
          u \in {NoUser, demoUser}, c \in InvalidCarts, k \in {ELECTRO10, FESTIVE50P}}
  \cup {[op |-> "apply", user |-> demoUser, cart |-> electronicsCart, code |-> <<>>]}

Requests == CreateRequests \cup BestRequests \cup ApplyRequests

\* requests of the runs with several requests in flight: two appliers of a
\* capped coupon, two creators whose codes normalize to the same code, a query
ConcurrentRequests ==
  { [op |-> "apply", user |-> demoUser, cart |-> fashionCart, code |-> FESTIVE50P],
    [op |-> "apply", user |-> demoUser, cart |-> electronicsCart,
     code |-> <<" ","w","e","l","c","o","m","e","1","0","0">>],
    [op |-> "create", body |-> Body(P14, Some(PERCENT), Some(14), "2025-01-01", "2025-03-03", Some(1))],
    [op |-> "create", body |-> Body(<<"p","1","4"," ">>, Some(FLAT), Some(Money(5, 0)),
                                    "2025-01-01", "2025-03-03", Null)],
    [op |-> "create", body |-> Body(<<"Y">>, Some(FLAT), Some(Money(5, 0)),
                                    "2025-01-01", "next week", Null)],
    [op |-> "apply", user |-> idOnlyUser, cart |-> smallCart, code |-> P14],
    [op |-> "best", user |-> demoUser, cart |-> fashionCart] }

(***************************************************************************)
(* Bounds                                                                  *)
(***************************************************************************)
\* coupons created on top of the seed set
MaxCreated == 2

\* successful applies recorded in the ledger, all users and codes together
MaxApplies == 2

\* requests in flight at once in the concurrent runs
MaxInFlight == 2

RECURSIVE SumOver(_, _)
SumOver(f, keys) ==
  IF keys = {} THEN 0
  ELSE LET k == CHOOSE x \in keys : TRUE IN f[k] + SumOver(f, keys \ {k})

TotalUsage(usage) ==
  SumOver([u \in DOMAIN usage |-> SumOver(usage[u], DOMAIN usage[u])], DOMAIN usage)

(***************************************************************************)
(* State machine                                                           *)
(***************************************************************************)
NoResponse == [op |-> "none"]

Init ==
  /\ coupons = seedCoupons
  /\ userUsage = EmptyMap
  /\ now = Boot
  /\ inflight = EmptyBag
  /\ response = NoResponse
  /\ succeeded = EmptyBag

\* a request arrives while no other is waiting
Receive ==
  /\ inflight = EmptyBag
  /\ response = NoResponse
  /\ \E r \in Requests : inflight' = SetToBag({r})
  /\ UNCHANGED <<coupons, userUsage, now, response, succeeded>>

\* a request arrives while others may be waiting
ReceiveConcurrent ==
  /\ BagCardinality(inflight) < MaxInFlight
  /\ response = NoResponse
  /\ \E r \in ConcurrentRequests : inflight' = inflight (+) SetToBag({r})
  /\ UNCHANGED <<coupons, userUsage, now, response, succeeded>>

\* the client has read the response that res.json() wrote
Deliver ==
  /\ response # NoResponse
  /\ response' = NoResponse
  /\ UNCHANGED <<coupons, userUsage, now, inflight, succeeded>>

CreateCoupon ==
  \E r \in BagToSet(inflight) :
    /\ response = NoResponse
    /\ r.op = "create"
    /\ LET res == createCouponResult(coupons, r.body) IN
       /\ res.status = 200 => Len(coupons) < Len(seedCoupons) + MaxCreated
       /\ coupons' = res.coupons
       /\ response' = [op |-> "create", req |-> r, status |-> res.status,
                       message |-> res.message, code |-> res.code]
    /\ inflight' = inflight (-) SetToBag({r})
    /\ UNCHANGED <<userUsage, now, succeeded>>

\* a query that records a redemption of the coupon it returns
BestCouponCounting ==
  \E r \in BagToSet(inflight) :
    /\ response = NoResponse
    /\ r.op = "best"
    /\ LET res == bestCouponResult(coupons, userUsage, now, r.user, r.cart) IN
       /\ response' = [op |-> "best", req |-> r, status |-> res.status,
                       message |-> res.message, best |-> res.best, code |-> res.code,
                       discountAmount |-> res.discountAmount, finalAmount |-> res.finalAmount]
       /\ userUsage' = IF res.best /\ hasUserId(r.user)
                       THEN incrementUsage(userUsage, Get(r.user.userId), res.code)
                       ELSE userUsage
    /\ inflight' = inflight (-) SetToBag({r})
    /\ UNCHANGED <<coupons, now, succeeded>>

BestCoupon ==
  \E r \in BagToSet(inflight) :
    /\ response = NoResponse
    /\ r.op = "best"
    /\ LET res == bestCouponResult(coupons, userUsage, now, r.user, r.cart) IN
       response' = [op |-> "best", req |-> r, status |-> res.status,
                    message |-> res.message, best |-> res.best, code |-> res.code,
                    discountAmount |-> res.discountAmount, finalAmount |-> res.finalAmount]
    /\ inflight' = inflight (-) SetToBag({r})
    /\ UNCHANGED <<coupons, userUsage, now, succeeded>>

ApplyCoupon ==
  \E r \in BagToSet(inflight) :
    /\ response = NoResponse
    /\ r.op = "apply"
    /\ LET res == applyCouponResult(coupons, userUsage, now, r.user, r.cart, r.code) IN
       /\ res.usage # userUsage => TotalUsage(userUsage) < MaxApplies
       /\ userUsage' = res.usage
       /\ response' = [op |-> "apply", req |-> r, status |-> res.status,
                       message |-> res.message, code |-> res.code,
                       discountAmount |-> res.discountAmount, finalAmount |-> res.finalAmount]
       /\ succeeded' = IF res.status = 200 /\ hasUserId(r.user)
                       THEN succeeded (+) SetToBag({<<Get(r.user.userId), res.code>>})
                       ELSE succeeded
    /\ inflight' = inflight (-) SetToBag({r})
    /\ UNCHANGED <<coupons, now>>

\* nowDate() moves on
Tick ==
  /\ response = NoResponse
  /\ \E t \in Times : t > now /\ now' = t
  /\ UNCHANGED <<coupons, userUsage, inflight, response, succeeded>>

\* one request at a time
Next == Receive \/ CreateCoupon \/ BestCoupon \/ ApplyCoupon \/ Deliver \/ Tick

Spec == Init /\ [][Next]_vars

\* up to MaxInFlight requests in flight
NextConcurrent ==
  ReceiveConcurrent \/ CreateCoupon \/ BestCoupon \/ ApplyCoupon \/ Deliver \/ Tick

SpecConcurrent == Init /\ [][NextConcurrent]_vars

(***************************************************************************)
(* Properties                                                              *)
(***************************************************************************)
StoredCodes == {coupons[i].code : i \in 1..Len(coupons)}

\* C1: whatever requests are in flight and in whatever order they are
\* handled, the ledger count of a user for a coupon whose usageLimitPerUser
\* is a non-negative integer L never exceeds L.
C1_CountWithinLimit ==
  \A u \in DOMAIN userUsage : \A i \in 1..Len(coupons) :
    (coupons[i].usageLimitPerUser # Null /\ Get(coupons[i].usageLimitPerUser) >= 0)
      => usedCount(userUsage, u, coupons[i].code) <= Get(coupons[i].usageLimitPerUser)

\* an apply has just succeeded and brought the count to the limit while a
\* second request for the same user and code is still in flight
C1_Witness ==
  /\ response.op = "apply"
  /\ response.status = 200
  /\ hasUserId(response.req.user)
  /\ \E r \in BagToSet(inflight) :
       /\ r.op = "apply"
       /\ r.user = response.req.user
       /\ normalizeCode(r.code) = response.code
  /\ \E i \in 1..Len(coupons) :
       /\ coupons[i].code = response.code
       /\ coupons[i].usageLimitPerUser # Null
       /\ usedCount(userUsage, Get(response.req.user.userId), response.code)
            = Get(coupons[i].usageLimitPerUser)

\* C2: a bestCoupon step, whatever its outcome, leaves the usage ledger and
\* the coupon collection as they were.
C2_BestCouponReadOnly ==
  [][(response = NoResponse /\ response'.op = "best")
       => (userUsage' = userUsage /\ coupons' = coupons)]_vars

\* a query has returned a best coupon while the ledger holds redemptions
C2_Witness ==
  /\ response.op = "best"
  /\ response.best
  /\ hasUserId(response.req.user)
  /\ userUsage # EmptyMap

\* C3: an applyCoupon step changes the ledger exactly when it succeeds for a
\* request with a user id; it then raises the count of that user for the
\* coupon's code by one and leaves every other entry as it was; in every
\* other case (unknown code, ineligible, no user id) the ledger is unchanged.
C3_ApplyLedgerEffect ==
  [][(response = NoResponse /\ response'.op = "apply") =>
       LET r == response'.req
           counted == response'.status = 200 /\ hasUserId(r.user)
       IN /\ (userUsage' # userUsage) <=> counted
          /\ counted =>
               \A u \in UserIds \cup DOMAIN userUsage' :
                 \A k \in StoredCodes \cup (IF u \in DOMAIN userUsage' THEN DOMAIN userUsage'[u] ELSE {}) :
                   usedCount(userUsage', u, k) =
                     IF u = Get(r.user.userId) /\ k = response'.code
                     THEN usedCount(userUsage, u, k) + 1
                     ELSE usedCount(userUsage, u, k)
          /\ ~counted => userUsage' = userUsage]_vars

\* a counted apply while the ledger already holds counts under another code
\* for the same user
C3_Witness ==
  /\ response.op = "apply"
  /\ response.status = 200
  /\ hasUserId(response.req.user)
  /\ \E k \in DOMAIN userUsage[Get(response.req.user.userId)] : k # response.code

\* C4: once a user has N successful applies of a coupon whose
\* usageLimitPerUser is N, every later apply of that coupon by that user
\* made inside the validity window fails with "usage limit reached", and no
\* later bestCoupon for that user returns the coupon.
C4_UsageCapMonotone ==
  [][\A i \in 1..Len(coupons) :
       LET c == coupons[i]
           r == response'.req
           capped == /\ c.usageLimitPerUser # Null
                     /\ hasUserId(r.user)
                     /\ CopiesIn(<<Get(r.user.userId), c.code>>, succeeded)
                          >= Get(c.usageLimitPerUser)
       IN /\ ( /\ response = NoResponse
               /\ response'.op = "apply"
               /\ normalizeCode(r.code) = c.code
               /\ capped
               /\ now >= Get(c.startDate)
               /\ now <= Get(c.endDate) )
             => (response'.status = 400 /\ response'.message = "usage limit reached")
          /\ ( /\ response = NoResponse
               /\ response'.op = "best"
               /\ capped )
             => ~(response'.best /\ response'.code = c.code)]_vars

\* the third apply of the coupon limited to two per user has been refused
C4_Witness ==
  /\ response.op = "apply"
  /\ response.message = "usage limit reached"
  /\ hasUserId(response.req.user)
  /\ CopiesIn(<<Get(response.req.user.userId), response.code>>, succeeded) = 2

\* C8: no two stored coupons have the same normalized code; a createCoupon
\* step that is rejected leaves the collection unchanged and an accepted one
\* appends exactly one coupon, whose code is the normalized code of the
\* request, and changes no stored coupon.
C8_UniqueCodes ==
  [][/\ \A i, j \in 1..Len(coupons') :
          normalizeCode(coupons'[i].code) = normalizeCode(coupons'[j].code) => i = j
     /\ (response = NoResponse /\ response'.op = "create") =>
          IF response'.status = 200
          THEN /\ Len(coupons') = Len(coupons) + 1
               /\ SubSeq(coupons', 1, Len(coupons)) = coupons
               /\ coupons'[Len(coupons')].code = normalizeCode(response'.req.body.code)
          ELSE coupons' = coupons]_vars

\* a creator has been rejected as a duplicate of a coupon that another
\* creator added under a differently written code
C8_Witness ==
  /\ response.op = "create"
  /\ response.status = 409
  /\ Len(coupons) > Len(seedCoupons)
  /\ coupons[Len(coupons)].code = normalizeCode(response.req.body.code)
  /\ coupons[Len(coupons)].code # response.req.body.code

\* the stored coupons that pass checkEligibility for the request of the
\* response and whose unrounded discount is positive, by index
Candidates ==
  {i \in 1..Len(coupons) :
     /\ checkEligibility(coupons[i], response.req.user, response.req.cart, userUsage, now).ok
     /\ computeDiscountAmount(coupons[i], response.req.cart) > 0}

\* the index of the coupon a best-coupon response names
BestIndex == CHOOSE i \in 1..Len(coupons) : coupons[i].code = response.code

ExactDiscount(i) == computeDiscountAmount(coupons[i], response.req.cart)

\* C5: the coupon bestCoupon returns passes every eligibility predicate and
\* has an unrounded discount above 0; for a cart with an items array, the
\* outcome is "no best coupon" exactly when no stored coupon does both.
C5_BestIsEligible ==
  response.op = "best" =>
    /\ response.best => \E i \in Candidates : coupons[i].code = response.code
    /\ isArrayItems(response.req.cart) =>
         /\ response.status = 200
         /\ response.best <=> Candidates # {}

\* a best coupon has been returned among several candidates while another
\* stored coupon is ineligible
C5_Witness ==
  /\ response.op = "best"
  /\ response.best
  /\ Cardinality(Candidates) >= 2
  /\ \E i \in 1..Len(coupons) :
       ~checkEligibility(coupons[i], response.req.user, response.req.cart, userUsage, now).ok

\* C6 as claimed: the coupon returned has the largest unrounded discount
\* among the eligible coupons with positive discount.
C6_ExactMaximum ==
  (response.op = "best" /\ response.best) =>
    \A i \in Candidates : ExactDiscount(i) <= ExactDiscount(BestIndex)

\* C6: the coupon returned has the largest discount rounded to 2 decimals
\* among the eligible coupons with positive discount, and that rounded amount
\* is the discountAmount reported; discounts that round to the same amount
\* are tied.
C6_RoundedMaximum ==
  (response.op = "best" /\ response.best) =>
    /\ response.discountAmount = Round2(ExactDiscount(BestIndex))
    /\ \A i \in Candidates : Round2(ExactDiscount(i)) <= response.discountAmount

\* the coupon returned has a smaller unrounded discount than another
\* candidate that rounds to the same amount
C6_Witness ==
  /\ response.op = "best"
  /\ response.best
  /\ \E i \in Candidates :
       /\ ExactDiscount(i) > ExactDiscount(BestIndex)
       /\ Round2(ExactDiscount(i)) = response.discountAmount

\* C7: every other candidate with the same discount amount as the coupon
\* returned has a later endDate, or the same endDate and a lexicographically
\* larger normalized code, wherever the two are stored.
C7_TieBreak ==
  (response.op = "best" /\ response.best) =>
    \A i \in Candidates \ {BestIndex} :
      Round2(ExactDiscount(i)) = response.discountAmount =>
        \/ endTime(coupons[BestIndex]) < endTime(coupons[i])
        \/ /\ endTime(coupons[BestIndex]) = endTime(coupons[i])
           /\ StrLess(normalizeCode(coupons[BestIndex].code), normalizeCode(coupons[i].code))

\* the coupon returned won on its code against a candidate stored before it,
\* with the same amount and the same endDate
C7_Witness ==
  /\ response.op = "best"
  /\ response.best
  /\ \E i \in Candidates :
       /\ i < BestIndex
       /\ Round2(ExactDiscount(i)) = response.discountAmount
       /\ endTime(coupons[i]) = endTime(coupons[BestIndex])
       /\ StrLess(normalizeCode(coupons[BestIndex].code), normalizeCode(coupons[i].code))

\* C9 as claimed: bestCoupon and applyCoupon on a cart whose items are
\* missing or not an array never answer with a server error and answer as
\* they do on a cart with an empty items array.
C9_MalformedCartAsEmpty ==
  /\ (response.op = "best" /\ ~isArrayItems(response.req.cart)) =>
       LET e == bestCouponResult(coupons, userUsage, now, response.req.user, emptyCart)
       IN /\ response.status # 500
          /\ response.status = e.status
          /\ response.best = e.best
          /\ response.code = e.code
  /\ (response.op = "apply" /\ ~isArrayItems(response.req.cart)) =>
       /\ response.status # 500
       /\ response.status # 200 =>
            LET e == applyCouponResult(coupons, userUsage, now, response.req.user,
                                       emptyCart, response.req.code)
            IN response.status = e.status /\ response.message = e.message

\* C10 as claimed: for every stored coupon and every cart the computed
\* discount is at least 0, a FLAT discount is at most the cart value, a
\* PERCENT discount at most maxDiscountAmount when set, another discount type
\* gives 0; and the finalAmount bestCoupon and applyCoupon report is never
\* negative.
C10_DiscountBounds ==
  /\ \A i \in 1..Len(coupons) : \A cart \in ValidCarts \cup InvalidCarts :
       LET c == coupons[i]
           d == computeDiscountAmount(c, cart)
       IN /\ d >= 0
          /\ c.discountType = FLAT => d <= computeCartValue(cart)
          /\ (c.discountType = PERCENT /\ c.maxDiscountAmount # Null)
               => d <= Get(c.maxDiscountAmount)
          /\ c.discountType \notin {FLAT, PERCENT} => d = 0
  /\ (response.op \in {"best", "apply"} /\ response.status = 200)
       => response.finalAmount >= 0

\* the response names a coupon it accepted for the user of the request
Accepted ==
  \/ response.op = "best" /\ response.best
  \/ response.op = "apply" /\ response.status = 200

\* C11 as claimed: a coupon that sets minLifetimeSpend or minOrdersPlaced is
\* accepted only for a user who is present, has the corresponding attribute
\* and has it >= the threshold; a coupon that sets firstOrderOnly,
\* allowedUserTiers or allowedCountries is accepted only for a present user.
C11_AttributeMustExist ==
  Accepted =>
    LET e == coupons[BestIndex].eligibility
        u == response.req.user
    IN /\ e.minLifetimeSpend # Null =>
            /\ u.present
            /\ u.lifetimeSpend # Null
            /\ Get(u.lifetimeSpend) >= Get(e.minLifetimeSpend)
       /\ e.minOrdersPlaced # Null =>
            /\ u.present
            /\ u.ordersPlaced # Null
            /\ Get(u.ordersPlaced) >= Get(e.minOrdersPlaced)
       /\ (e.firstOrderOnly \/ Len(e.allowedUserTiers) > 0 \/ Len(e.allowedCountries) > 0)
            => u.present

\* C11: a coupon that sets minLifetimeSpend or minOrdersPlaced is accepted
\* only for a present user whose corresponding attribute, read as 0 when the
\* user lacks it, is >= the threshold; a coupon that sets firstOrderOnly,
\* allowedUserTiers or allowedCountries is accepted only for a present user;
\* and an apply is refused with "min lifetime spend not met" or "min orders
\* placed not met" only when the user is absent or that attribute, read as 0
\* when lacking, is below the threshold.
C11_MissingAttributeIsZero ==
  LET e == coupons[BestIndex].eligibility
      u == response.req.user
      spend == IF u.lifetimeSpend = Null THEN 0 ELSE Get(u.lifetimeSpend)
      orders == IF u.ordersPlaced = Null THEN 0 ELSE Get(u.ordersPlaced)
  IN /\ Accepted =>
          /\ e.minLifetimeSpend # Null => u.present /\ spend >= Get(e.minLifetimeSpend)
          /\ e.minOrdersPlaced # Null => u.present /\ orders >= Get(e.minOrdersPlaced)
          /\ (e.firstOrderOnly \/ Len(e.allowedUserTiers) > 0 \/ Len(e.allowedCountries) > 0)
               => u.present
     /\ (response.op = "apply" /\ response.message = "min lifetime spend not met") =>
          /\ e.minLifetimeSpend # Null
          /\ ~u.present \/ spend < Get(e.minLifetimeSpend)
     /\ (response.op = "apply" /\ response.message = "min orders placed not met") =>
          /\ e.minOrdersPlaced # Null
          /\ ~u.present \/ orders < Get(e.minOrdersPlaced)

\* a coupon that sets both minimums is applied for a user who has neither
\* lifetimeSpend nor ordersPlaced
C11_Witness ==
  /\ response.op = "apply"
  /\ response.status = 200
  /\ coupons[BestIndex].eligibility.minLifetimeSpend # Null
  /\ coupons[BestIndex].eligibility.minOrdersPlaced # Null
  /\ response.req.user.present
  /\ response.req.user.lifetimeSpend = Null
  /\ response.req.user.ordersPlaced = Null

====
